---- MODULE Spec2Model ----
(***************************************************************************)
(* Monday.com -> ElevenLabs relay: src/server.js (HTTP handlers),          *)
(* src/services/monday.js (webhook normalizer and field extractor) and     *)
(* src/services/elevenlabs.js (call request builder and outbound call).    *)
(*                                                                         *)
(* JavaScript values are tagged records:                                   *)
(*   [t |-> "null"]                  undefined / null                      *)
(*   [t |-> "str", s |-> <<chars>>]  a string whose characters are read    *)
(*   [t |-> "lit", lit |-> "..."]    a string literal that is only passed  *)
(*                                   on, never inspected                   *)
(*   [t |-> "num", s |-> <<digits>>] a number, by its decimal digits       *)
(*   [t |-> "stamp", prefix, at]     a prefix concatenated with Date.now() *)
(*   [t |-> "obj", text, value]      a structured column value             *)
(***************************************************************************)
EXTENDS Integers, Sequences, FiniteSets, TLC

----------------------------------------------------------------------------
(* JavaScript values                                                       *)

Null == [t |-> "null"]
Str(s) == [t |-> "str", s |-> s]
Lit(l) == [t |-> "lit", lit |-> l]
Num(s) == [t |-> "num", s |-> s]
Stamp(p, n) == [t |-> "stamp", prefix |-> p, at |-> n]
Obj(text, value) == [t |-> "obj", text |-> text, value |-> value]

\* JavaScript truthiness: null, undefined, '' and 0 are falsy.
Truthy(v) ==
  CASE v.t = "null" -> FALSE
    [] v.t = "str" -> v.s # <<>>
    [] v.t = "lit" -> v.lit # ""
    [] v.t = "num" -> v.s # <<"0">>
    [] OTHER -> TRUE

\* a || b
Or(a, b) == IF Truthy(a) THEN a ELSE b

\* v.text and v.value: undefined on anything but a structured value.
TextOf(v) == IF v.t = "obj" THEN v.text ELSE Null
ValueOf(v) == IF v.t = "obj" THEN v.value ELSE Null

----------------------------------------------------------------------------
(* Strings as sequences of characters                                      *)

UpperAlpha == <<"A", "B", "C", "D", "E", "F", "G", "H", "I", "J", "K", "L", "M", "N", "O", "P", "Q", "R", "S", "T", "U", "V", "W", "X", "Y", "Z">>
LowerAlpha == <<"a", "b", "c", "d", "e", "f", "g", "h", "i", "j", "k", "l", "m", "n", "o", "p", "q", "r", "s", "t", "u", "v", "w", "x", "y", "z">>
DigitChars == {"0", "1", "2", "3", "4", "5", "6", "7", "8", "9"}

LowerOf == [i \in 1..Len(UpperAlpha) |-> LowerAlpha[i]]
UpperIndex == [c \in {UpperAlpha[i] : i \in 1..Len(UpperAlpha)} |->
                 CHOOSE i \in 1..Len(UpperAlpha) : UpperAlpha[i] = c]

ToLowerChar(c) == IF c \in DOMAIN UpperIndex THEN LowerOf[UpperIndex[c]] ELSE c

\* String.prototype.toLowerCase
toLowerCase(s) == IF s = <<>> THEN <<>> ELSE [i \in 1..Len(s) |-> ToLowerChar(s[i])]

\* String.prototype.includes
includes(s, k) == \E i \in 0..(Len(s) - Len(k)) : SubSeq(s, i + 1, i + Len(k)) = k

\* String.prototype.startsWith
startsWith(s, p) == Len(s) >= Len(p) /\ SubSeq(s, 1, Len(p)) = p

----------------------------------------------------------------------------
(* Field extractor: src/services/monday.js                                 *)

phoneKeywords == {<<"p", "h", "o", "n", "e">>,
                  <<"t", "e", "l", "e", "f", "o", "n", "e">>,
                  <<"t", "e", "l">>,
                  <<"c", "e", "l", "u", "l", "a", "r">>,
                  <<"m", "o", "b", "i", "l", "e">>}
emailKeywords == {<<"e", "m", "a", "i", "l">>,
                  <<"m", "a", "i", "l">>,
                  <<"e", "-", "m", "a", "i", "l">>}
companyKeywords == {<<"c", "o", "m", "p", "a", "n", "y">>,
                    <<"e", "m", "p", "r", "e", "s", "a">>,
                    <<"b", "u", "s", "i", "n", "e", "s", "s">>,
                    <<"o", "r", "g", "a", "n", "i", "z", "a", "t", "i", "o", "n">>}

\* keywords.some(keyword => lowered.includes(keyword))
SomeKeyword(lowered, keywords) == \E keyword \in keywords : includes(lowered, keyword)

\* The column identifiers in play (webhook columnValues keys, fetched column ids)
ColPhone == <<"P", "h", "o", "n", "e">>
ColEmail == <<"e", "m", "a", "i", "l">>
ColEmpresa == <<"e", "m", "p", "r", "e", "s", "a">>
ColCompanyEmail == <<"c", "o", "m", "p", "a", "n", "y", "_", "e", "m", "a", "i", "l">>
ColFetchedPhone == <<"t", "e", "l", "e", "f", "o", "n", "e">>
lead_company == <<"l", "e", "a", "d", "_", "c", "o", "m", "p", "a", "n", "y">>
WebhookColumnIds == {ColPhone, ColEmail, ColEmpresa, ColCompanyEmail}
FetchedColumnIds == {ColFetchedPhone, ColEmail, lead_company}
ColumnIds == WebhookColumnIds \cup FetchedColumnIds

\* The three tests, evaluated once per identifier in play
PhoneColumnTest == [id \in ColumnIds |-> SomeKeyword(toLowerCase(id), phoneKeywords)]
EmailColumnTest == [id \in ColumnIds |-> SomeKeyword(toLowerCase(id), emailKeywords)]
CompanyColumnTest == [id \in ColumnIds |-> SomeKeyword(toLowerCase(id), companyKeywords)]

isPhoneColumn(columnId) == PhoneColumnTest[columnId]
isEmailColumn(columnId) == EmailColumnTest[columnId]
isCompanyColumn(columnId) == CompanyColumnTest[columnId]

\* phone.replace(/[^\d+]/g, ''): every character that is neither a digit nor
\* a '+' is dropped, wherever it stands.
StripNonPhone(s) == SelectSeq(s, LAMBDA c : c \in DigitChars \/ c = "+")

CountryPrefix == <<"+", "5", "5">>

\* The value the first branches of extractPhone / extractEmail pick: the
\* string itself, else a truthy .text, else a truthy .value, else ''.
CoerceField(data) ==
  IF data.t = "str" THEN data
  ELSE IF Truthy(data) /\ Truthy(TextOf(data)) THEN TextOf(data)
  ELSE IF Truthy(data) /\ Truthy(ValueOf(data)) THEN ValueOf(data)
  ELSE Str(<<>>)

\* Mutant of extractPhone: the 10-digit branch is missing.
extractPhoneElevenOnly(data) ==
  LET phone == CoerceField(data) IN
  IF phone.t # "str"
    THEN Null
    ELSE LET stripped == StripNonPhone(phone.s)
             prefixed ==
               IF Len(stripped) = 11 /\ ~startsWith(stripped, <<"+">>)
                 THEN CountryPrefix \o stripped
               ELSE stripped
         IN IF Len(prefixed) >= 10 THEN Str(prefixed) ELSE Null

extractPhone(data) ==
  LET phone == CoerceField(data) IN
  IF phone.t # "str"
    THEN Null  \* phone.replace is not a function: TypeError, caught, null
    ELSE LET stripped == StripNonPhone(phone.s)
             prefixed ==
               IF Len(stripped) = 11 /\ ~startsWith(stripped, <<"+">>)
                 THEN CountryPrefix \o stripped
               ELSE IF Len(stripped) = 10 /\ ~startsWith(stripped, <<"+">>)
                 THEN CountryPrefix \o stripped
               ELSE stripped
         IN IF Len(prefixed) >= 10 THEN Str(prefixed) ELSE Null

\* /^[^\s@]+@[^\s@]+\.[^\s@]+$/.test(s)
emailRegexTest(s) ==
  \E a \in 2..Len(s) : \E d \in (a + 2)..(Len(s) - 1) :
    /\ s[a] = "@"
    /\ s[d] = "."
    /\ \A k \in 1..Len(s) : k # a => s[k] \notin {"@", " "}

extractEmail(emailData) ==
  LET email == CoerceField(emailData) IN
  \* RegExp.test converts its argument to a string; a number has no '@'
  IF email.t = "str" /\ emailRegexTest(email.s) THEN email ELSE Null

----------------------------------------------------------------------------
(* MondayService.fetchItemDetails: src/services/monday.js                  *)

NoColumns == [k \in {} |-> Null]

\* columns[id] = v
SetColumn(columns, id, v) ==
  [k \in DOMAIN columns \cup {id} |-> IF k = id THEN v ELSE columns[k]]

\* One iteration of item.column_values.forEach
FetchColumnStep(itemData, column) ==
  LET withColumn == [itemData EXCEPT !.columns =
                       SetColumn(@, column.id, Or(column.text, column.value))]
      withPhone == IF isPhoneColumn(column.id) /\ Truthy(column.text)
                     THEN [withColumn EXCEPT !.phone = extractPhone(column.text)]
                     ELSE withColumn
      withEmail == IF isEmailColumn(column.id) /\ Truthy(column.text)
                     THEN [withPhone EXCEPT !.email = column.text]
                     ELSE withPhone
  IN IF isCompanyColumn(column.id) /\ Truthy(column.text)
       THEN [withEmail EXCEPT !.company = column.text]
       ELSE withEmail

RECURSIVE FetchColumns(_, _, _)
FetchColumns(itemData, column_values, i) ==
  IF i > Len(column_values) THEN itemData
  ELSE FetchColumns(FetchColumnStep(itemData, column_values[i]), column_values, i + 1)

\* The part of fetchItemDetails after the awaited axios.post: a rejected
\* request is caught and gives null, an answer without items gives null.
fetchItemDetails(reply) ==
  IF reply.kind = "error" THEN Null
  ELSE IF reply.kind = "empty" THEN Null
  ELSE FetchColumns([t |-> "item", id |-> reply.item.id, name |-> reply.item.name,
                     phone |-> Null, email |-> Null, company |-> Null,
                     columns |-> NoColumns],
                    reply.item.column_values, 1)

----------------------------------------------------------------------------
(* MondayService.processWebhook: src/services/monday.js                    *)

\* event?.f and eventData?.f
EventField(webhookData, f) ==
  IF webhookData.event.t = "event" THEN webhookData.event[f] ELSE Null
EventDataField(webhookData, f) ==
  LET eventData == EventField(webhookData, "data") IN
  IF eventData.t = "data" THEN eventData[f] ELSE Null

eventType(webhookData) == EventField(webhookData, "type")
itemId(webhookData) ==
  Or(EventDataField(webhookData, "pulse_id"),
     Or(EventField(webhookData, "pulseId"), webhookData.pulseId))
boardIdFromEvent(webhookData) ==
  Or(EventDataField(webhookData, "board_id"),
     Or(EventField(webhookData, "boardId"), webhookData.boardId))
columnIdOf(webhookData) ==
  Or(EventDataField(webhookData, "column_id"), EventField(webhookData, "columnId"))
columnValueOf(webhookData) ==
  Or(EventDataField(webhookData, "value"), EventField(webhookData, "value"))
itemName(webhookData) == Or(EventField(webhookData, "pulseName"), webhookData.pulseName)

create_pulse == Str(<<"c", "r", "e", "a", "t", "e", "_", "p", "u", "l", "s", "e">>)
change_column_value == Str(<<"c", "h", "a", "n", "g", "e", "_", "c", "o", "l", "u", "m", "n", "_", "v", "a", "l", "u", "e">>)
update_column_value == Str(<<"u", "p", "d", "a", "t", "e", "_", "c", "o", "l", "u", "m", "n", "_", "v", "a", "l", "u", "e">>)

isCreateEvent(webhookData) == eventType(webhookData) = create_pulse
isChangeEvent(webhookData) ==
  \/ eventType(webhookData) = change_column_value
  \/ eventType(webhookData) = update_column_value

\* Mutant of isValidEvent: any event that names a type is taken.
isValidEventAnyType(webhookData) == Truthy(eventType(webhookData))

\* processWebhook returns null before any fetch unless the event is one of these
isValidEvent(webhookData) == isCreateEvent(webhookData) \/ isChangeEvent(webhookData)

\* itemDetails?.f
DetailField(itemDetails, f) == IF itemDetails.t = "item" THEN itemDetails[f] ELSE Null

\* Mutant of WebhookColumnStep: a webhook column only fills a field the
\* fetched item left empty.
WebhookColumnStepFillOnly(leadData, entry) ==
  LET columnId == entry.id
      columnValue == entry.value
      withPhone == IF isPhoneColumn(columnId) /\ Truthy(columnValue) /\ ~Truthy(leadData.phone)
                     THEN [leadData EXCEPT !.phone = extractPhone(columnValue)]
                     ELSE leadData
      withEmail == IF isEmailColumn(columnId) /\ Truthy(columnValue) /\ ~Truthy(leadData.email)
                     THEN [withPhone EXCEPT !.email = extractEmail(columnValue)]
                     ELSE withPhone
  IN IF isCompanyColumn(columnId) /\ Truthy(columnValue) /\ ~Truthy(leadData.company)
       THEN [withEmail EXCEPT !.company =
               Or(TextOf(columnValue), Or(ValueOf(columnValue), columnValue))]
       ELSE withEmail

\* One iteration of Object.keys(columnValues).forEach
WebhookColumnStep(leadData, entry) ==
  LET columnId == entry.id
      columnValue == entry.value
      withPhone == IF isPhoneColumn(columnId) /\ Truthy(columnValue)
                     THEN [leadData EXCEPT !.phone = extractPhone(columnValue)]
                     ELSE leadData
      withEmail == IF isEmailColumn(columnId) /\ Truthy(columnValue)
                     THEN [withPhone EXCEPT !.email = extractEmail(columnValue)]
                     ELSE withPhone
  IN IF isCompanyColumn(columnId) /\ Truthy(columnValue)
       THEN [withEmail EXCEPT !.company =
               Or(TextOf(columnValue), Or(ValueOf(columnValue), columnValue))]
       ELSE withEmail

RECURSIVE WebhookColumns(_, _, _)
WebhookColumns(leadData, entries, i) ==
  IF i > Len(entries) THEN leadData
  ELSE WebhookColumns(WebhookColumnStep(leadData, entries[i]), entries, i + 1)

\* The record seeded from the fetched item (leadData = { ... })
SeedLead(webhookData, itemDetails, now) ==
  [t |-> "lead",
   id |-> Or(itemId(webhookData), Stamp("lead-", now)),
   name |-> Or(itemName(webhookData),
               Or(DetailField(itemDetails, "name"), Lit("Lead without name"))),
   boardId |-> boardIdFromEvent(webhookData),
   phone |-> Or(DetailField(itemDetails, "phone"), Null),
   email |-> Or(DetailField(itemDetails, "email"), Null),
   company |-> Or(DetailField(itemDetails, "company"), Null),
   source |-> Lit("monday.com"),
   createdAt |-> now,
   eventType |-> eventType(webhookData),
   columnId |-> columnIdOf(webhookData),
   columnValue |-> columnValueOf(webhookData),
   mcpData |-> itemDetails]

\* The part of processWebhook after the awaited fetchItemDetails
processWebhook(webhookData, itemDetails, now) ==
  LET leadData == SeedLead(webhookData, itemDetails, now) IN
  IF Truthy(webhookData.columnValues)
    THEN WebhookColumns(leadData, webhookData.columnValues.entries, 1)
    ELSE leadData

----------------------------------------------------------------------------
(* ElevenLabsService: src/services/elevenlabs.js                           *)

NotConfigured == <<"n", "o", "t", " ", "c", "o", "n", "f", "i", "g", "u", "r", "e", "d">>
CredentialsNotConfigured == Str(<<"E", "l", "e", "v", "e", "n", "L", "a", "b", "s", " ", "c", "r", "e", "d", "e", "n", "t", "i", "a", "l", "s", " ", "n", "o", "t", " ", "c", "o", "n", "f", "i", "g", "u", "r", "e", "d">>)
ApiErrorPrefix == <<"E", "l", "e", "v", "e", "n", "L", "a", "b", "s", " ", "A", "P", "I", " ", "E", "r", "r", "o", "r", ":", " ">>
Dash == <<" ", "-", " ">>
Undefined == <<"u", "n", "d", "e", "f", "i", "n", "e", "d">>

\* `${v}` for a status or a detail
Interpolate(v) ==
  CASE v.t = "null" -> Undefined
    [] v.t = "num" -> v.s
    [] OTHER -> v.s

\* leadData.mcpData?.columns?.lead_company
LeadCompanyColumn(leadData) ==
  IF leadData.mcpData.t = "item" /\ lead_company \in DOMAIN leadData.mcpData.columns
    THEN leadData.mcpData.columns[lead_company]
    ELSE Null

\* Mutant of prepareCallData: the record's company goes before the fetched
\* lead_company column.
prepareCallDataCompanyFirst(cfg, leadData) ==
  LET customerName == Or(leadData.name, Lit("Customer"))
      companyName == Or(leadData.company,
                        Or(LeadCompanyColumn(leadData), Lit("your restaurant")))
  IN [agent_id |-> cfg.agentId,
      agent_phone_number_id |-> Or(cfg.phoneNumberId, Lit("default_phone_id")),
      to_number |-> leadData.phone,
      dynamic_variables |-> [customer_name |-> customerName,
                             company_name |-> companyName]]

prepareCallData(cfg, leadData) ==
  LET customerName == Or(leadData.name, Lit("Customer"))
      companyName == Or(LeadCompanyColumn(leadData),
                        Or(leadData.company, Lit("your restaurant")))
  IN [agent_id |-> cfg.agentId,
      agent_phone_number_id |-> Or(cfg.phoneNumberId, Lit("default_phone_id")),
      to_number |-> leadData.phone,
      dynamic_variables |-> [customer_name |-> customerName,
                             company_name |-> companyName]]

simulateCall(leadData, now) ==
  [success |-> TRUE,
   call_id |-> Stamp("sim_", now),
   status |-> Lit("simulated"),
   leadId |-> leadData.id,
   phone |-> leadData.phone,
   timestamp |-> now,
   simulation |-> TRUE,
   message |-> Lit("Call simulated - ElevenLabs credentials not configured")]

\* The error makeAPICall throws when axios rejects
ApiError(reply) ==
  Str(ApiErrorPrefix \o Interpolate(reply.status) \o Dash
        \o Interpolate(Or(reply.detail, reply.message)))

\* The object initiateCall returns when the provider answers
CallResult(leadData, reply, now) ==
  [success |-> TRUE,
   call_id |-> Or(reply.data.call_id, reply.data.id),
   status |-> Or(reply.data.status, Lit("initiated")),
   leadId |-> leadData.id,
   phone |-> leadData.phone,
   timestamp |-> now]

\* Mutant of credentialsConfigured: the agent identifier is not checked.
apiKeyConfigured(cfg) == Truthy(cfg.apiKey)

credentialsConfigured(cfg) == Truthy(cfg.apiKey) /\ Truthy(cfg.agentId)

\* The catch block of initiateCall: a message that includes 'not configured'
\* turns into a simulated call, any other error is thrown again.
CatchInitiateCall(leadData, error, now) ==
  IF includes(error.s, NotConfigured)
    THEN [thrown |-> FALSE, result |-> simulateCall(leadData, now)]
    ELSE [thrown |-> TRUE, error |-> error]

\* initiateCall when the credentials check fails (no request is sent)
initiateCallUnconfigured(leadData, now) ==
  CatchInitiateCall(leadData, CredentialsNotConfigured, now)

\* initiateCall after the awaited makeAPICall
initiateCallReply(leadData, reply, now) ==
  IF reply.ok
    THEN [thrown |-> FALSE, result |-> CallResult(leadData, reply, now)]
    ELSE CatchInitiateCall(leadData, ApiError(reply), now)

----------------------------------------------------------------------------
(* HTTP relay: src/server.js                                               *)

VARIABLES
  config,    \* process.env as read by the services
  h,         \* the handler invocations, one per connection
  phoneData, \* the argument of a direct call of extractPhone
  phoneOut,  \* and what it returned
  callLead,  \* the argument of a direct call of prepareCallData
  callData   \* and what it returned

vars == <<config, h, phoneData, phoneOut, callLead, callData>>

None == [t |-> "none"]

\* A connection with no request in progress
Idle ==
  [pc |-> "idle", route |-> "none", body |-> None, fetchReply |-> None,
   leadData |-> None, callReply |-> None, callResult |-> None, resp |-> None,
   fetches |-> <<>>, calls |-> <<>>, sims |-> <<>>]

\* res.status(status).json(body)
Json(status, body) == [t |-> "resp", status |-> status, json |-> TRUE, body |-> body]

Accept(route, body) == [Idle EXCEPT !.pc = "running", !.route = route, !.body = body]
Respond(rec, resp) == [rec EXCEPT !.pc = "done", !.resp = resp]

Free(r) == h[r].pc = "idle"

\* res.json after initiateCall returned, per route
CallResponse(rec, leadData, callResult) ==
  IF rec.route = "POST /webhook/monday"
    THEN Json(200, [success |-> TRUE,
                    message |-> Lit("Chamada iniciada com sucesso"),
                    leadId |-> leadData.id,
                    callId |-> callResult.call_id])
    ELSE Json(200, [success |-> TRUE,
                    message |-> Lit("Chamada de teste iniciada"),
                    callResult |-> callResult])

\* Mutant of ErrorResponse: the error's message is left out of the body.
ErrorResponseNoMessage(rec, error) ==
  IF rec.route = "POST /webhook/monday"
    THEN Json(500, [error |-> Lit("Erro interno do servidor")])
    ELSE Json(500, [error |-> Lit("Erro ao testar chamada")])

\* The catch block of the route
ErrorResponse(rec, error) ==
  IF rec.route = "POST /webhook/monday"
    THEN Json(500, [error |-> Lit("Erro interno do servidor"), message |-> error])
    ELSE Json(500, [error |-> Lit("Erro ao testar chamada"), message |-> error])

\* Mutant of AfterInitiateCall: a call that failed is sent once more.
AfterInitiateCallRetry(rec, leadData, outcome) ==
  IF outcome.thrown /\ Len(rec.calls) = 1
    THEN [rec EXCEPT !.pc = "calling", !.calls = Append(@, @[1])]
  ELSE IF outcome.thrown
    THEN Respond(rec, ErrorResponse(rec, outcome.error))
  ELSE Respond([rec EXCEPT !.callResult = outcome.result,
                           !.sims = IF "simulation" \in DOMAIN outcome.result
                                      THEN Append(@, leadData.phone) ELSE @],
               CallResponse(rec, leadData, outcome.result))

\* The handler once initiateCall has settled
AfterInitiateCall(rec, leadData, outcome) ==
  IF outcome.thrown
    THEN Respond(rec, ErrorResponse(rec, outcome.error))
    ELSE Respond([rec EXCEPT !.callResult = outcome.result,
                             !.sims = IF "simulation" \in DOMAIN outcome.result
                                        THEN Append(@, leadData.phone) ELSE @],
                 CallResponse(rec, leadData, outcome.result))

\* elevenlabsService.initiateCall(leadData) up to its first await
StartCall(rec, leadData, now) ==
  LET withLead == [rec EXCEPT !.leadData = leadData] IN
  IF ~credentialsConfigured(config)
    THEN AfterInitiateCall(withLead, leadData, initiateCallUnconfigured(leadData, now))
    ELSE [withLead EXCEPT !.pc = "calling",
                          !.calls = Append(@, prepareCallData(config, leadData))]

----------------------------------------------------------------------------
(* Bounds and the inputs the environment may send                          *)

MaxCols == 1        \* entries of a webhook's columnValues
MaxFetchCols == 1   \* column_values of a fetched item

\* Readings of Date.now(): they are copied into identifiers and timestamps
\* and decide nothing.
Clock == {"t1"}
Handlers == {"c1"}

SeqsUpTo(S, n) == UNION {[1..k -> S] : k \in 0..n}
DistinctIds(seq) == \A i, j \in 1..Len(seq) : i # j => seq[i].id # seq[j].id

WebhookPhoneValue == Obj(Str(<<"(", "1", "1", ")", " ", "9", "9", "9", "9", "9", "-", "9", "9", "9", "9">>), Null)
WebhookEmailValue == Str(<<"a", "@", "b", ".", "c", "o">>)
FetchedPhoneText == Str(<<"1", "1", "8", "8", "8", "8", "8", "8", "8", "8", "8">>)
FetchedEmailText == Str(<<"c", "@", "d", ".", "c", "o">>)
FetchedJsonValue == Str(<<"{", "}">>)

WebhookColumnValues == {WebhookPhoneValue, WebhookEmailValue, Str(<<>>)}

ColumnValuesPool ==
  {Null} \cup
  {[t |-> "map", entries |-> e] :
     e \in {s \in SeqsUpTo([id : WebhookColumnIds, value : WebhookColumnValues], MaxCols) :
              DistinctIds(s)}}

UnknownEvent == Str(<<"u", "n", "k", "n", "o", "w", "n", "_", "e", "v", "e", "n", "t">>)
EventTypes == {create_pulse, change_column_value, update_column_value, UnknownEvent, Null}

NoEvent == [challenge |-> Null, event |-> Null, pulseName |-> Null, pulseId |-> Null,
            boardId |-> Null, columnValues |-> Null]
BareEvent(type) ==
  [t |-> "event", type |-> type, data |-> Null, pulseId |-> Null, boardId |-> Null,
   columnId |-> Null, value |-> Null, pulseName |-> Null]

\* The two shapes Monday.com sends (ids nested in event.data, or as siblings
\* of event), and an event that carries nothing but its type.
ShapedBody(shape, type) ==
  CASE shape = "nested" ->
         [NoEvent EXCEPT !.event =
            [BareEvent(type) EXCEPT
               !.data = [t |-> "data", pulse_id |-> Num(<<"7">>), board_id |-> Num(<<"1">>),
                         column_id |-> Str(ColPhone), value |-> Null],
               !.pulseName = Str(<<"A", "n", "a">>)]]
    [] shape = "sibling" ->
         [NoEvent EXCEPT !.event = BareEvent(type),
                         !.pulseName = Str(<<"B", "o", "b">>),
                         !.pulseId = Num(<<"8">>),
                         !.boardId = Num(<<"1">>)]
    [] shape = "bare" -> [NoEvent EXCEPT !.event = BareEvent(type)]
    [] OTHER -> NoEvent

\* Every event type in the nested shape, the other shapes for an item creation
ShapesAndTypes ==
  ({"nested"} \X EventTypes) \cup ({"sibling", "bare", "none"} \X {create_pulse})

WebhookBodies ==
  {[ShapedBody(st[1], st[2]) EXCEPT !.challenge = challenge, !.columnValues = cv] :
     st \in ShapesAndTypes,
     challenge \in {Null, Str(<<"a", "b", "c", "1", "2", "3">>)},
     cv \in ColumnValuesPool}

FetchedColumns ==
  [id : FetchedColumnIds,
   text : {FetchedPhoneText, FetchedEmailText, Null},
   value : {FetchedJsonValue}]

MondayReplies ==
  {[kind |-> "error"], [kind |-> "empty"]} \cup
  {[kind |-> "item", item |-> [id |-> Num(<<"7">>), name |-> Str(<<>>),
                               column_values |-> <<>>]]} \cup
  {[kind |-> "item", item |-> [id |-> Num(<<"7">>), name |-> Str(<<"E", "v", "a">>),
                               column_values |-> cols]] :
     cols \in {s \in SeqsUpTo(FetchedColumns, MaxFetchCols) : DistinctIds(s)}}

ElevenLabsReplies ==
  {[ok |-> TRUE, data |-> [call_id |-> Str(<<"c", "1">>), id |-> Null, status |-> Str(<<"q", "u", "e", "u", "e", "d">>)]],
   [ok |-> TRUE, data |-> [call_id |-> Null, id |-> Str(<<"c", "2">>), status |-> Null]],
   [ok |-> FALSE, status |-> Num(<<"4", "0", "1">>), detail |-> Str(<<"b", "a", "d", " ", "k", "e", "y">>),
    message |-> Str(<<"s", "t", "a", "t", "u", "s", " ", "4", "0", "1">>)],
   [ok |-> FALSE, status |-> Num(<<"4", "0", "4">>), detail |-> Str(<<"a", "g", "e", "n", "t", " ", "n", "o", "t", " ", "c", "o", "n", "f", "i", "g", "u", "r", "e", "d">>),
    message |-> Str(<<"s", "t", "a", "t", "u", "s", " ", "4", "0", "4">>)],
   [ok |-> FALSE, status |-> Null, detail |-> Null, message |-> Str(<<"N", "e", "t", "w", "o", "r", "k", " ", "E", "r", "r", "o", "r">>)]}

TestCallBodies ==
  [phone : {Null, Str(<<>>), Str(<<"1", "2">>),
            Str(<<"+", "5", "5", "1", "1", "9", "9", "9", "9", "9", "9", "9", "9", "9">>)},
   name : {Null, Str(<<"A", "n", "a">>)}]

ElevenLabsWebhookBodies ==
  [dynamic_variables :
     {Null, [t |-> "vars", customer_name |-> Str(<<"A", "n", "a">>), company_name |-> Null]}]

Configs ==
  [apiKey : {Null, Lit("xi-key")}, agentId : {Null, Lit("agent-1")},
   phoneNumberId : {Null, Lit("phone-1")}, mondayApiKey : {Lit("monday-key")}]

----------------------------------------------------------------------------
(* Routes                                                                  *)

\* app.get('/health')
GetHealth(r) ==
  /\ Free(r)
  /\ \E now \in Clock :
     h' = [h EXCEPT ![r] =
            Respond(Accept("GET /health", None),
                    Json(200, [status |-> Lit("OK"), timestamp |-> now,
                               service |-> Lit("Monday-ElevenLabs Bridge")]))]
  /\ UNCHANGED <<config, phoneData, phoneOut, callLead, callData>>

\* app.head('/webhook/monday'): res.status(200).end()
HeadWebhookMonday(r) ==
  /\ Free(r)
  /\ h' = [h EXCEPT ![r] =
            Respond(Accept("HEAD /webhook/monday", None),
                    [t |-> "resp", status |-> 200, json |-> FALSE, body |-> None])]
  /\ UNCHANGED <<config, phoneData, phoneOut, callLead, callData>>

\* Mutant of ReceiveWebhook: the challenge is looked at only after the
\* event was processed.
ReceiveWebhookChallengeLast(body) ==
  LET rec == Accept("POST /webhook/monday", body) IN
  IF isValidEvent(body)
    THEN [rec EXCEPT !.pc = "fetching",
                     !.fetches = Append(@, [boardId |-> boardIdFromEvent(body),
                                            itemId |-> itemId(body)])]
  ELSE IF Truthy(body.challenge)
    THEN Respond(rec, Json(200, [challenge |-> body.challenge]))
  ELSE Respond(rec, Json(400, [error |-> Lit("Dados invalidos do webhook")]))

\* app.post('/webhook/monday') up to the awaited CRM fetch: the challenge
\* echo, then processWebhook up to fetchItemDetails' axios.post
ReceiveWebhook(body) ==
  LET rec == Accept("POST /webhook/monday", body) IN
  IF Truthy(body.challenge)
    THEN Respond(rec, Json(200, [challenge |-> body.challenge]))
  ELSE IF ~isValidEvent(body)
    \* processWebhook returned null
    THEN Respond(rec, Json(400, [error |-> Lit("Dados invalidos do webhook")]))
  ELSE [rec EXCEPT !.pc = "fetching",
                   !.fetches = Append(@, [boardId |-> boardIdFromEvent(body),
                                          itemId |-> itemId(body)])]

PostWebhookMonday(r) ==
  /\ Free(r)
  /\ \E body \in WebhookBodies : h' = [h EXCEPT ![r] = ReceiveWebhook(body)]
  /\ UNCHANGED <<config, phoneData, phoneOut, callLead, callData>>

\* Mutant of ValidateAndCall: a record without phone is answered as an error.
ValidateAndCallNoPhoneIsError(rec, leadData, now) ==
  IF ~Truthy(leadData.phone)
    THEN Respond([rec EXCEPT !.leadData = leadData],
                 Json(400, [error |-> Lit("Lead sem telefone")]))
    ELSE StartCall(rec, leadData, now)

\* The route once processWebhook has returned the record: the phone is
\* validated and the call started.
ValidateAndCall(rec, leadData, now) ==
  IF ~Truthy(leadData.phone)
    THEN Respond([rec EXCEPT !.leadData = leadData],
                 Json(200, [message |-> Lit("Lead sem telefone, ignorado")]))
    ELSE StartCall(rec, leadData, now)

\* Mutant of HandleMondayReply: fetchItemDetails does not catch the rejected
\* request, so processWebhook's own catch returns null.
HandleMondayReplyUncaught(rec, reply, now) ==
  IF reply.kind = "error"
    THEN Respond([rec EXCEPT !.fetchReply = reply],
                 Json(400, [error |-> Lit("Dados invalidos do webhook")]))
    ELSE ValidateAndCall([rec EXCEPT !.fetchReply = reply],
                         processWebhook(rec.body, fetchItemDetails(reply), now), now)

\* What the handler does with the CRM's answer: fetchItemDetails and
\* processWebhook finish, then the route goes on.
HandleMondayReply(rec, reply, now) ==
  ValidateAndCall([rec EXCEPT !.fetchReply = reply],
                  processWebhook(rec.body, fetchItemDetails(reply), now), now)

\* The CRM answers the item query, or the request fails.
MondayReply(r) ==
  /\ h[r].pc = "fetching"
  /\ \E reply \in MondayReplies, now \in Clock :
       h' = [h EXCEPT ![r] = HandleMondayReply(h[r], reply, now)]
  /\ UNCHANGED <<config, phoneData, phoneOut, callLead, callData>>

\* Mutant of ReceiveTestCall: the phone is not looked at before the call.
ReceiveTestCallUnchecked(body, now) ==
  StartCall(Accept("POST /test/call", body),
            [t |-> "lead", id |-> Stamp("test-", now),
             name |-> Or(body.name, Lit("Teste")), phone |-> body.phone,
             source |-> Lit("manual-test"), company |-> Null, mcpData |-> Null],
            now)

\* The /test/call handler up to the awaited provider call
ReceiveTestCall(body, now) ==
  LET rec == Accept("POST /test/call", body)
      \* fields the literal leaves out read as undefined
      testLead == [t |-> "lead", id |-> Stamp("test-", now),
                   name |-> Or(body.name, Lit("Teste")), phone |-> body.phone,
                   source |-> Lit("manual-test"), company |-> Null, mcpData |-> Null]
  IN IF ~Truthy(body.phone)
       THEN Respond(rec, Json(400, [error |-> Lit("Telefone e obrigatorio")]))
       ELSE StartCall(rec, testLead, now)

\* app.post('/test/call')
PostTestCall(r) ==
  /\ Free(r)
  /\ \E body \in TestCallBodies, now \in Clock :
       h' = [h EXCEPT ![r] = ReceiveTestCall(body, now)]
  /\ UNCHANGED <<config, phoneData, phoneOut, callLead, callData>>

\* What the handler does with the provider's answer: initiateCall and the
\* route finish.
HandleElevenLabsReply(rec, reply, now) ==
  AfterInitiateCall([rec EXCEPT !.callReply = reply], rec.leadData,
                    initiateCallReply(rec.leadData, reply, now))

\* The calling provider answers, or the request fails.
ElevenLabsReply(r) ==
  /\ h[r].pc = "calling"
  /\ \E reply \in ElevenLabsReplies, now \in Clock :
       h' = [h EXCEPT ![r] = HandleElevenLabsReply(h[r], reply, now)]
  /\ UNCHANGED <<config, phoneData, phoneOut, callLead, callData>>

\* app.post('/webhook/elevenlabs')
PostWebhookElevenLabs(r) ==
  /\ Free(r)
  /\ \E body \in ElevenLabsWebhookBodies, now \in Clock :
     h' = [h EXCEPT ![r] =
            Respond(Accept("POST /webhook/elevenlabs", body),
                    Json(200, [success |-> TRUE,
                               message |-> Lit("Webhook processado com sucesso"),
                               received_variables |-> Or(body.dynamic_variables, Null),
                               timestamp |-> now]))]
  /\ UNCHANGED <<config, phoneData, phoneOut, callLead, callData>>

\* app.get('/logs')
GetLogs(r) ==
  /\ Free(r)
  /\ \E now \in Clock :
     h' = [h EXCEPT ![r] =
            Respond(Accept("GET /logs", None),
                    Json(200, [message |-> Lit("Logs disponiveis no console do servidor"),
                               timestamp |-> now]))]
  /\ UNCHANGED <<config, phoneData, phoneOut, callLead, callData>>

\* The response is sent and the handler returns: its locals are discarded.
Finish(r) ==
  /\ h[r].pc = "done"
  /\ h' = [h EXCEPT ![r] = Idle]
  /\ UNCHANGED <<config, phoneData, phoneOut, callLead, callData>>

Init ==
  /\ config \in Configs
  /\ h = [r \in Handlers |-> Idle]
  /\ phoneData = None
  /\ phoneOut = None
  /\ callLead = None
  /\ callData = None

Next ==
  \E r \in Handlers :
    \/ GetHealth(r)
    \/ HeadWebhookMonday(r)
    \/ PostWebhookMonday(r)
    \/ MondayReply(r)
    \/ PostTestCall(r)
    \/ ElevenLabsReply(r)
    \/ PostWebhookElevenLabs(r)
    \/ GetLogs(r)
    \/ Finish(r)

Spec == Init /\ [][Next]_vars

----------------------------------------------------------------------------
(* Two requests in flight at once                                          *)

\* Node runs one handler until its next await; a second request can be taken
\* while the first waits for the CRM or for the provider.
Connections == {"c1", "c2"}

\* A lead with its own phone column, a lead whose phone only the CRM knows,
\* an event that is no lead, a challenge
ConcurrentBodies ==
  {[ShapedBody("nested", create_pulse) EXCEPT !.columnValues =
      [t |-> "map", entries |-> <<[id |-> ColPhone, value |-> WebhookPhoneValue]>>]],
   ShapedBody("sibling", create_pulse),
   ShapedBody("nested", UnknownEvent),
   [ShapedBody("bare", create_pulse) EXCEPT !.challenge = Str(<<"a", "b", "c", "1", "2", "3">>)]}

ConcurrentMondayReplies ==
  {reply \in MondayReplies :
     \/ reply.kind = "error"
     \/ /\ reply.kind = "item"
        /\ Len(reply.item.column_values) = 1
        /\ reply.item.column_values[1].id = ColFetchedPhone
        /\ reply.item.column_values[1].text = FetchedPhoneText}

ConcurrentElevenLabsReplies ==
  {reply \in ElevenLabsReplies :
     IF reply.ok THEN Truthy(reply.data.call_id) ELSE reply.status = Num(<<"4", "0", "1">>)}

ConcurrentTestCallBodies ==
  {body \in TestCallBodies :
     body.name = Null /\ (body.phone = Null \/ Len(body.phone.s) > 2)}

ConcurrentPostWebhookMonday(r) ==
  /\ Free(r)
  /\ \E body \in ConcurrentBodies : h' = [h EXCEPT ![r] = ReceiveWebhook(body)]
  /\ UNCHANGED <<config, phoneData, phoneOut, callLead, callData>>

\* Mutant of ConcurrentMondayReply: the webhook being processed is kept in
\* one place for all handlers, so the record is built from the payload of
\* whichever request is waiting for the CRM.
ConcurrentMondayReplySharedPayload(r) ==
  /\ h[r].pc = "fetching"
  /\ \E q \in Connections, reply \in ConcurrentMondayReplies, now \in Clock :
       /\ h[q].pc = "fetching"
       /\ h' = [h EXCEPT ![r] =
                  ValidateAndCall([h[r] EXCEPT !.fetchReply = reply],
                                  processWebhook(h[q].body, fetchItemDetails(reply), now),
                                  now)]
  /\ UNCHANGED <<config, phoneData, phoneOut, callLead, callData>>

ConcurrentMondayReply(r) ==
  /\ h[r].pc = "fetching"
  /\ \E reply \in ConcurrentMondayReplies, now \in Clock :
       h' = [h EXCEPT ![r] = HandleMondayReply(h[r], reply, now)]
  /\ UNCHANGED <<config, phoneData, phoneOut, callLead, callData>>

ConcurrentPostTestCall(r) ==
  /\ Free(r)
  /\ \E body \in ConcurrentTestCallBodies, now \in Clock :
       h' = [h EXCEPT ![r] = ReceiveTestCall(body, now)]
  /\ UNCHANGED <<config, phoneData, phoneOut, callLead, callData>>

ConcurrentElevenLabsReply(r) ==
  /\ h[r].pc = "calling"
  /\ \E reply \in ConcurrentElevenLabsReplies, now \in Clock :
       h' = [h EXCEPT ![r] = HandleElevenLabsReply(h[r], reply, now)]
  /\ UNCHANGED <<config, phoneData, phoneOut, callLead, callData>>

InitConcurrent ==
  /\ config \in Configs
  /\ h = [r \in Connections |-> Idle]
  /\ phoneData = None
  /\ phoneOut = None
  /\ callLead = None
  /\ callData = None

NextConcurrent ==
  \E r \in Connections :
    \/ GetHealth(r)
    \/ HeadWebhookMonday(r)
    \/ ConcurrentPostWebhookMonday(r)
    \/ ConcurrentMondayReply(r)
    \/ ConcurrentPostTestCall(r)
    \/ ConcurrentElevenLabsReply(r)
    \/ PostWebhookElevenLabs(r)
    \/ GetLogs(r)
    \/ Finish(r)

SpecConcurrent == InitConcurrent /\ [][NextConcurrent]_vars

----------------------------------------------------------------------------
(* extractPhone called on its own                                          *)

MaxDigits == 12     \* digits of a phone input

DigitCycle == <<"1", "2", "3", "4", "5", "6", "7", "8", "9", "0">>
Digits(from, n) == [i \in 1..n |-> DigitCycle[((from + i - 2) % 10) + 1]]

\* n digits, with `mid` after the first two of them and `lead` in front
PhoneString(lead, n, mid) ==
  LET head == IF n < 2 THEN n ELSE 2 IN
  lead \o Digits(1, head) \o mid \o Digits(head + 1, n - head)

PhoneStrings ==
  {PhoneString(lead, n, mid) :
     lead \in {<<>>, <<"+">>, <<"(">>}, n \in 0..MaxDigits, mid \in {<<>>, <<"+">>, <<"-">>}}

PhoneInputs ==
  {Null} \cup
  UNION {{Str(s), Num(s), Obj(Str(s), Null), Obj(Null, Str(s)),
          Obj(Str(<<>>), Str(s)), Obj(Str(s), Str(<<"1">>)), Obj(Num(s), Null)} :
           s \in PhoneStrings}

InitPhone ==
  /\ config \in Configs
  /\ h = [r \in Handlers |-> Idle]
  /\ phoneData \in PhoneInputs
  /\ phoneOut = None
  /\ callLead = None
  /\ callData = None

CallExtractPhone ==
  /\ phoneOut = None
  /\ phoneOut' = extractPhone(phoneData)
  /\ UNCHANGED <<config, h, phoneData, callLead, callData>>

NextPhone == CallExtractPhone

SpecPhone == InitPhone /\ [][NextPhone]_vars

----------------------------------------------------------------------------
(* prepareCallData called on its own                                       *)

\* What leadData.mcpData may hold: nothing, or a fetched item whose columns
\* have no lead_company, or one that is absent, empty or filled
CallSnapshots ==
  {Null} \cup
  {[t |-> "item", id |-> Num(<<"7">>), name |-> Str(<<"E", "v", "a">>),
    phone |-> Null, email |-> Null, company |-> Null, columns |-> columns] :
     columns \in {NoColumns} \cup
                 {SetColumn(NoColumns, lead_company, v) :
                    v \in {Null, Str(<<>>), Str(<<"F", "o", "o">>)}}}

CallLeads ==
  [t : {"lead"}, id : {Num(<<"7">>)},
   name : {Null, Str(<<>>), Str(<<"A", "n", "a">>)},
   phone : {Null, Str(<<"+", "5", "5", "1", "1", "9", "9", "9", "9", "9", "9", "9", "9", "9">>)},
   company : {Null, Str(<<>>), Str(<<"A", "c", "m", "e">>)},
   mcpData : CallSnapshots]

InitCallData ==
  /\ config \in Configs
  /\ h = [r \in Handlers |-> Idle]
  /\ phoneData = None
  /\ phoneOut = None
  /\ callLead \in CallLeads
  /\ callData = None

CallPrepareCallData ==
  /\ callData = None
  /\ callData' = prepareCallData(config, callLead)
  /\ UNCHANGED <<config, h, phoneData, phoneOut, callLead>>

NextCallData == CallPrepareCallData

SpecCallData == InitCallData /\ [][NextCallData]_vars

----------------------------------------------------------------------------
(* Properties                                                              *)

Webhook(r) == h[r].route = "POST /webhook/monday"
TestCall(r) == h[r].route = "POST /test/call"
Answered(r) == h[r].pc = "done"
ProviderFailed(r) == h[r].callReply # None /\ ~h[r].callReply.ok
HasKey(body, k) == k \in DOMAIN body

\* C1: every POST /webhook/monday whose call reached the provider and failed
\* there, whatever the status or detail of the failure, is answered with a
\* 5xx status whose body embeds the upstream error message, never a success.
C1_ProviderFailureIs5xx ==
  \A r \in Handlers :
    (Webhook(r) /\ Answered(r) /\ ProviderFailed(r)) =>
      /\ h[r].resp.status >= 500
      /\ HasKey(h[r].resp.body, "message")
      /\ h[r].resp.body.message = ApiError(h[r].callReply)

FetchFailed(r) == h[r].fetchReply # None /\ h[r].fetchReply.kind = "error"

\* C2 as stated: a failed CRM item fetch is surfaced to the webhook caller as
\* a 5xx response.
C2_FetchFailureIs5xx ==
  \A r \in Handlers :
    (Webhook(r) /\ Answered(r) /\ FetchFailed(r)) => h[r].resp.status >= 500

IgnoredNoPhone == Json(200, [message |-> Lit("Lead sem telefone, ignorado")])

\* C2 as amended: a failed CRM item fetch is swallowed. The record is built
\* without fetched data, a record without phone is answered 200 "ignored",
\* and a 5xx is sent only when the provider call itself failed.
C2_FetchFailureSwallowed ==
  \A r \in Handlers :
    (Webhook(r) /\ FetchFailed(r)) =>
      /\ h[r].pc \in {"calling", "done"}
      /\ h[r].leadData # None
      /\ h[r].leadData.mcpData = Null
      /\ (Answered(r) /\ ~Truthy(h[r].leadData.phone)) => h[r].resp = IgnoredNoPhone
      /\ (Answered(r) /\ h[r].resp.status >= 500) => ProviderFailed(r)

\* C2 witness: the fetch failed and the webhook's own phone column still led
\* to a call and a success response.
C2_Witness ==
  \E r \in Handlers :
    /\ Webhook(r) /\ Answered(r) /\ FetchFailed(r)
    /\ h[r].resp.status = 200
    /\ HasKey(h[r].resp.body, "success")

\* C3: a webhook body with a non-empty challenge is answered with exactly the
\* echoed challenge; the normalizer is not run, no CRM fetch is issued and no
\* provider call is made or simulated, whatever else the body carries.
C3_ChallengeEchoedOnly ==
  \A r \in Handlers :
    (Webhook(r) /\ Truthy(h[r].body.challenge)) =>
      /\ Answered(r)
      /\ h[r].resp = Json(200, [challenge |-> h[r].body.challenge])
      /\ h[r].leadData = None
      /\ h[r].fetchReply = None
      /\ h[r].fetches = <<>>
      /\ h[r].calls = <<>>
      /\ h[r].sims = <<>>

RecognizedTypes == {create_pulse, change_column_value, update_column_value}
Recognized(r) == EventField(h[r].body, "type") \in RecognizedTypes

\* C3 witness: a challenge arrived on a body that is otherwise a lead event
\* with a phone column.
C3_Witness ==
  \E r \in Handlers :
    /\ Webhook(r) /\ Answered(r) /\ Truthy(h[r].body.challenge)
    /\ Recognized(r)
    /\ Truthy(h[r].body.columnValues)
    /\ \E i \in 1..Len(h[r].body.columnValues.entries) :
         extractPhone(h[r].body.columnValues.entries[i].value) # Null

\* C4: a webhook whose event type is none of create_pulse,
\* change_column_value, update_column_value (an absent type included) is
\* rejected by the normalizer (null, answered 400) before any fetch, and no
\* provider call is made or simulated for it.
C4_UnknownEventRejected ==
  \A r \in Handlers :
    (Webhook(r) /\ ~Recognized(r)) =>
      /\ Answered(r)
      /\ h[r].leadData = None
      /\ h[r].fetches = <<>>
      /\ h[r].calls = <<>>
      /\ h[r].sims = <<>>
      /\ ~Truthy(h[r].body.challenge) =>
           h[r].resp = Json(400, [error |-> Lit("Dados invalidos do webhook")])

\* C4 witness: an unknown event type carrying a valid phone column was
\* rejected.
C4_Witness ==
  \E r \in Handlers :
    /\ Webhook(r) /\ Answered(r) /\ ~Recognized(r)
    /\ ~Truthy(h[r].body.challenge)
    /\ EventField(h[r].body, "type") # Null
    /\ Truthy(h[r].body.columnValues)
    /\ \E i \in 1..Len(h[r].body.columnValues.entries) :
         /\ isPhoneColumn(h[r].body.columnValues.entries[i].id)
         /\ extractPhone(h[r].body.columnValues.entries[i].value) # Null
    /\ h[r].resp.status = 400

Entries(r) ==
  IF Truthy(h[r].body.columnValues) THEN h[r].body.columnValues.entries ELSE <<>>
FetchedColumnsOf(r) ==
  IF h[r].fetchReply # None /\ h[r].fetchReply.kind = "item"
    THEN h[r].fetchReply.item.column_values ELSE <<>>

\* Some webhook column named for a phone holds a value extractPhone accepts
WebhookYieldsPhone(r) ==
  \E i \in 1..Len(Entries(r)) :
    isPhoneColumn(Entries(r)[i].id) /\ extractPhone(Entries(r)[i].value) # Null
\* Some fetched column named for a phone holds a text extractPhone accepts
FetchYieldsPhone(r) ==
  \E i \in 1..Len(FetchedColumnsOf(r)) :
    isPhoneColumn(FetchedColumnsOf(r)[i].id) /\ extractPhone(FetchedColumnsOf(r)[i].text) # Null

Normalized(r) == Webhook(r) /\ h[r].leadData # None

\* C5: a webhook with a recognized event type for which neither the webhook
\* columns nor the CRM fetch (a fetch returning no item included) yields a
\* phone still gets a record, with phone absent, and is answered with a 200
\* status and the "ignored, no phone" message, not an error; no call is made.
C5_NoPhoneIgnoredWithSuccess ==
  \A r \in Handlers :
    (Webhook(r) /\ Recognized(r) /\ ~Truthy(h[r].body.challenge)
       /\ h[r].fetchReply # None /\ ~WebhookYieldsPhone(r) /\ ~FetchYieldsPhone(r)) =>
      /\ Answered(r)
      /\ h[r].leadData # None
      /\ h[r].leadData.t = "lead"
      /\ h[r].leadData.phone = Null
      /\ h[r].resp = IgnoredNoPhone
      /\ h[r].calls = <<>>
      /\ h[r].sims = <<>>

\* C5 witness: the CRM returned no item for a create_pulse event without
\* usable columns, and the webhook was answered 200 "ignored".
C5_Witness ==
  \E r \in Handlers :
    /\ Webhook(r) /\ Answered(r)
    /\ EventField(h[r].body, "type") = create_pulse
    /\ h[r].fetchReply = [kind |-> "empty"]
    /\ ~WebhookYieldsPhone(r)
    /\ h[r].leadData # None
    /\ h[r].leadData.phone = Null
    /\ h[r].resp.status = 200

\* A call was initiated for a lead with a phone
CallInitiated(r) ==
  /\ h[r].route \in {"POST /webhook/monday", "POST /test/call"}
  /\ h[r].leadData # None
  /\ Truthy(h[r].leadData.phone)

CredentialsAbsent == ~Truthy(config.apiKey) \/ ~Truthy(config.agentId)

\* The response body says the call was simulated
FlaggedSimulated(body) ==
  \/ HasKey(body, "simulation") /\ body.simulation
  \/ HasKey(body, "callResult") /\ HasKey(body.callResult, "simulation")
       /\ body.callResult.simulation

IsSynthetic(id) == id.t = "stamp" /\ id.prefix = "sim_"

\* The synthetic call identifier, where the route's response puts it
ResponseCallId(body) ==
  IF HasKey(body, "callId") THEN body.callId
  ELSE IF HasKey(body, "callResult") THEN body.callResult.call_id
  ELSE Null

\* C6 as stated: with the API key or the agent identifier absent, every call
\* initiation for a lead with a phone, on /test/call and on the CRM webhook,
\* is answered with a success response flagged as simulated that carries a
\* synthetic call identifier, and no request goes to the provider.
C6_UnconfiguredAnswersFlaggedSimulated ==
  \A r \in Handlers :
    (CredentialsAbsent /\ CallInitiated(r)) =>
      /\ Answered(r)
      /\ h[r].resp.status = 200
      /\ HasKey(h[r].resp.body, "success")
      /\ FlaggedSimulated(h[r].resp.body)
      /\ IsSynthetic(ResponseCallId(h[r].resp.body))
      /\ h[r].calls = <<>>

\* C6 as amended: with the API key or the agent identifier absent, every
\* call initiation for a lead with a phone returns a result flagged as
\* simulated with a synthetic call identifier, no request goes to the
\* provider, and the answer is a 200 success that carries that identifier;
\* the simulated flag itself reaches the caller on /test/call only (the
\* webhook's response copies the identifier and drops the flag).
C6_UnconfiguredSimulates ==
  \A r \in Handlers :
    (CredentialsAbsent /\ CallInitiated(r)) =>
      /\ Answered(r)
      /\ h[r].calls = <<>>
      /\ h[r].callReply = None
      /\ h[r].callResult # None
      /\ HasKey(h[r].callResult, "simulation")
      /\ h[r].callResult.simulation
      /\ IsSynthetic(h[r].callResult.call_id)
      /\ h[r].resp.status = 200
      /\ HasKey(h[r].resp.body, "success")
      /\ h[r].resp.body.success
      /\ ResponseCallId(h[r].resp.body) = h[r].callResult.call_id
      /\ FlaggedSimulated(h[r].resp.body) <=> TestCall(r)

\* C6 witness: /test/call with a phone and no agent identifier was answered
\* with a simulated result.
C6_Witness ==
  \E r \in Handlers :
    /\ TestCall(r) /\ Answered(r) /\ CallInitiated(r)
    /\ Truthy(config.apiKey) /\ ~Truthy(config.agentId)
    /\ FlaggedSimulated(h[r].resp.body)
    /\ IsSynthetic(ResponseCallId(h[r].resp.body))

Responded(r) == h[r].resp # None
DataKeys == {"callId", "callResult", "received_variables", "leadId"}

\* C7 as stated: every response, on every route and path, is a JSON body
\* holding a success flag together with data, or an error field together
\* with a message.
C7_EveryResponseSuccessOrError ==
  \A r \in Handlers :
    Responded(r) =>
      /\ h[r].resp.json
      /\ \/ HasKey(h[r].resp.body, "success") /\ DOMAIN h[r].resp.body \cap DataKeys # {}
         \/ HasKey(h[r].resp.body, "error") /\ HasKey(h[r].resp.body, "message")

\* C7 as amended: every response but the bodiless HEAD answer is a JSON body.
\* Every 5xx answer holds an error field together with a message, and every
\* answer sent once a call was initiated, like every /webhook/elevenlabs
\* answer, holds a true success flag together with data. The 400 rejections
\* hold an error field without a message; the /health and /logs payloads,
\* the challenge echo and the 200 "no phone" answer hold neither a success
\* flag nor an error field.
C7_ResponseShapes ==
  \A r \in Handlers :
    Responded(r) =>
      /\ h[r].resp.json <=> h[r].route # "HEAD /webhook/monday"
      /\ h[r].resp.json =>
           LET body == h[r].resp.body
               status == h[r].resp.status
           IN /\ status >= 500 => HasKey(body, "error") /\ HasKey(body, "message")
              /\ (h[r].callResult # None \/ h[r].route = "POST /webhook/elevenlabs") =>
                   /\ status = 200
                   /\ HasKey(body, "success")
              /\ HasKey(body, "success") =>
                   /\ body.success
                   /\ DOMAIN body \cap DataKeys # {}
                   /\ ~HasKey(body, "error")
              /\ status = 400 => DOMAIN body = {"error"}
              /\ (status = 200 /\ h[r].callResult = None
                    /\ h[r].route # "POST /webhook/elevenlabs") =>
                   /\ ~HasKey(body, "success")
                   /\ ~HasKey(body, "error")
              /\ status \in {200, 400, 500}

\* C7 witness: a provider failure was answered 500 with error and message.
C7_Witness ==
  \E r \in Handlers :
    /\ Answered(r) /\ ProviderFailed(r)
    /\ h[r].resp.status = 500
    /\ HasKey(h[r].resp.body, "error")
    /\ HasKey(h[r].resp.body, "message")

\* The role the specification's classifyColumn gives an identifier: the first
\* that matches of phone, email, company
classifyColumn(columnId) ==
  IF isPhoneColumn(columnId) THEN "phone"
  ELSE IF isEmailColumn(columnId) THEN "email"
  ELSE IF isCompanyColumn(columnId) THEN "company"
  ELSE "none"

\* A non-empty webhook column classified for the role
WebhookHasRole(r, role) ==
  \E i \in 1..Len(Entries(r)) :
    classifyColumn(Entries(r)[i].id) = role /\ Truthy(Entries(r)[i].value)

\* The value of the last non-empty webhook column whose identifier passes Is
LastValue(r, Is(_)) ==
  LET matching == {i \in 1..Len(Entries(r)) : Is(Entries(r)[i].id) /\ Truthy(Entries(r)[i].value)}
  IN Entries(r)[CHOOSE i \in matching : \A j \in matching : j <= i].value

\* C8: the record is seeded from the fetched item and then overwritten by the
\* webhook's own columns: whenever the webhook column map holds a non-empty
\* column classified as phone, email or company, the record's field is the
\* one derived from the webhook column for that role (the last one in key
\* order when several match), whatever the fetched item held.
C8_WebhookColumnsWin ==
  \A r \in Handlers :
    Normalized(r) =>
      /\ WebhookHasRole(r, "phone") =>
           h[r].leadData.phone = extractPhone(LastValue(r, isPhoneColumn))
      /\ WebhookHasRole(r, "email") =>
           h[r].leadData.email = extractEmail(LastValue(r, isEmailColumn))
      /\ WebhookHasRole(r, "company") =>
           LET v == LastValue(r, isCompanyColumn) IN
           h[r].leadData.company = Or(TextOf(v), Or(ValueOf(v), v))

\* C8 witness: the fetched item and a webhook column both gave a phone, the
\* two differ, and the record holds the webhook's.
C8_Witness ==
  \E r \in Handlers :
    /\ Normalized(r)
    /\ WebhookHasRole(r, "phone")
    /\ Truthy(DetailField(h[r].leadData.mcpData, "phone"))
    /\ extractPhone(LastValue(r, isPhoneColumn)) # Null
    /\ extractPhone(LastValue(r, isPhoneColumn)) # h[r].leadData.mcpData.phone
    /\ h[r].leadData.phone = extractPhone(LastValue(r, isPhoneColumn))

\* Some webhook column named for an email holds a value extractEmail accepts
WebhookYieldsEmail(r) ==
  \E i \in 1..Len(Entries(r)) :
    isEmailColumn(Entries(r)[i].id) /\ extractEmail(Entries(r)[i].value) # Null

\* C9: fetched values fill in what the webhook did not make known: when the
\* fetched item yields a phone (or email) and no webhook column yields a valid
\* one, a matching column whose value fails normalization included, the
\* record's phone (or email) is the fetched value and not absent.
C9_FetchedFillsUnknown ==
  \A r \in Handlers :
    Normalized(r) =>
      /\ (Truthy(DetailField(h[r].leadData.mcpData, "phone")) /\ ~WebhookYieldsPhone(r)) =>
           h[r].leadData.phone = h[r].leadData.mcpData.phone
      /\ (Truthy(DetailField(h[r].leadData.mcpData, "email")) /\ ~WebhookYieldsEmail(r)) =>
           h[r].leadData.email = h[r].leadData.mcpData.email

----------------------------------------------------------------------------
(* Properties of extractPhone (SpecPhone)                                  *)

IsDigit(c) == c \in DigitChars

\* The field the reference reads: the plain string, else .text, else .value
PickedField(v) ==
  IF v.t = "str" THEN v
  ELSE IF Truthy(TextOf(v)) THEN TextOf(v)
  ELSE IF Truthy(ValueOf(v)) THEN ValueOf(v)
  ELSE Str(<<>>)

\* Digits and '+' signs of a string, in order
PhoneChars(s) == SelectSeq(s, LAMBDA c : IsDigit(c) \/ c = "+")

\* The reference's stripping: digits, and a '+' only in front
KeepLeadingPlus(s) ==
  LET k == PhoneChars(s) IN
  IF k = <<>> THEN <<>> ELSE <<k[1]>> \o SelectSeq(Tail(k), IsDigit)

\* The reference normalizePhone of the specification
ReferencePhone(v) ==
  LET p == KeepLeadingPlus(PickedField(v).s)
      digits == Len(SelectSeq(p, IsDigit))
      q == IF digits \in {10, 11} /\ (p = <<>> \/ p[1] # "+") THEN <<"+", "5", "5">> \o p ELSE p
  IN IF Len(q) >= 10 THEN Str(q) ELSE Null

\* C10 as stated: for every input value extractPhone equals the reference:
\* coerce to a string, keep only digits and a leading '+', prepend '+55'
\* exactly when the result has 10 or 11 digits and no leading '+', and return
\* it only if its length is at least 10, otherwise absent.
C10_EqualsReference ==
  phoneOut # None => phoneOut = ReferencePhone(phoneData)

\* No '+' stands after the first kept character
NoInnerPlus(s) == \A i \in 2..Len(PhoneChars(s)) : PhoneChars(s)[i] # "+"

\* C10 as amended: extractPhone equals the reference for every input whose
\* picked field is a string with no '+' after its first kept character; in
\* particular 11 national digits give '+55' followed by them and 9 digits
\* give absent. Every '+' is kept, not only a leading one: with a '+'
\* elsewhere the result keeps it and the 10-or-11 test counts it. A picked
\* .text or .value that is a number gives absent.
C10_PhoneNormalization ==
  phoneOut # None =>
    LET picked == PickedField(phoneData) IN
    IF picked.t # "str" THEN phoneOut = Null
    ELSE /\ NoInnerPlus(picked.s) => phoneOut = ReferencePhone(phoneData)
         /\ LET k == PhoneChars(picked.s) IN
            phoneOut = IF Len(k) \in {10, 11} /\ k[1] # "+" THEN Str(<<"+", "5", "5">> \o k)
                       ELSE IF Len(k) >= 10 THEN Str(k)
                       ELSE Null
         /\ phoneData = Str(Digits(1, 11)) => phoneOut = Str(<<"+", "5", "5">> \o Digits(1, 11))
         /\ phoneData = Str(Digits(1, 9)) => phoneOut = Null

\* C10 witness: ten national digits, written with punctuation, were given the
\* country prefix.
C10_Witness ==
  /\ phoneData = Str(<<"(">> \o Digits(1, 2) \o <<"-">> \o Digits(3, 8))
  /\ phoneOut = Str(<<"+", "5", "5">> \o Digits(1, 10))

----------------------------------------------------------------------------
(* Properties of the column roles                                          *)

\* A fetched column with a text, classified for the role
FetchedHasRole(r, role) ==
  \E i \in 1..Len(FetchedColumnsOf(r)) :
    /\ classifyColumn(FetchedColumnsOf(r)[i].id) = role
    /\ Truthy(FetchedColumnsOf(r)[i].text)

\* C11: an identifier has at most one role, the first that matches of phone,
\* email, company, and a column contributes to that role only: a record's
\* email or company is set only when some webhook or fetched column whose
\* role is email, respectively company, holds a value, never by a column
\* that already counted for an earlier role.
C11_FirstRoleOnly ==
  \A r \in Handlers :
    Normalized(r) =>
      /\ Truthy(h[r].leadData.email) =>
           WebhookHasRole(r, "email") \/ FetchedHasRole(r, "email")
      /\ Truthy(h[r].leadData.company) =>
           WebhookHasRole(r, "company") \/ FetchedHasRole(r, "company")

----------------------------------------------------------------------------
(* Properties of the record's fields                                       *)

\* The specification's local@domain.tld: no whitespace, exactly one '@' with
\* something before it, and a '.' after the '@' with something on both sides
MatchesLocalDomainTld(s) ==
  /\ \A k \in 1..Len(s) : s[k] # " "
  /\ Cardinality({k \in 1..Len(s) : s[k] = "@"}) = 1
  /\ \E a \in 2..Len(s) : \E d \in (a + 2)..(Len(s) - 1) : s[a] = "@" /\ s[d] = "."

\* What a phone normalization can return: ten or more digits and '+' signs
LooksNormalizedPhone(v) ==
  /\ v.t = "str"
  /\ Len(v.s) >= 10
  /\ \A k \in 1..Len(v.s) : IsDigit(v.s[k]) \/ v.s[k] = "+"

\* C12: every record processWebhook returns, whatever mix of webhook columns
\* and fetched columns produced it, has an email that is absent or matches
\* local@domain.tld, and a phone that is absent or a normalized phone.
C12_RecordFieldsValidated ==
  \A r \in Handlers :
    Normalized(r) =>
      /\ h[r].leadData.email = Null
           \/ (h[r].leadData.email.t = "str" /\ MatchesLocalDomainTld(h[r].leadData.email.s))
      /\ h[r].leadData.phone = Null \/ LooksNormalizedPhone(h[r].leadData.phone)

----------------------------------------------------------------------------
(* Properties of prepareCallData (SpecCallData)                            *)

NonEmpty(v) == v # Null /\ v # Str(<<>>)

\* The first non-empty value of a list whose last one is never empty
RECURSIVE FirstNonEmpty(_)
FirstNonEmpty(vs) ==
  IF Len(vs) = 1 \/ NonEmpty(Head(vs)) THEN Head(vs) ELSE FirstNonEmpty(Tail(vs))

\* The fetched snapshot's lead_company column, absent without a snapshot
SnapshotCompany(leadData) ==
  IF leadData.mcpData = Null THEN Null
  ELSE IF lead_company \notin DOMAIN leadData.mcpData.columns THEN Null
  ELSE leadData.mcpData.columns[lead_company]

\* What the claim says of the names and of the destination number
NamesAndDestination ==
  /\ callData.dynamic_variables.company_name =
       FirstNonEmpty(<<SnapshotCompany(callLead), callLead.company, Lit("your restaurant")>>)
  /\ callData.dynamic_variables.customer_name =
       FirstNonEmpty(<<callLead.name, Lit("Customer")>>)
  /\ callData.to_number = callLead.phone

\* C13 as stated: for every record given to prepareCallData, company_name is
\* the first non-empty of the fetched snapshot's lead_company column, the
\* record's company and a fixed fallback string; customer_name is the
\* record's name, or 'Customer' when the name is empty; the agent and
\* phone-line identifiers are the configured ones and the destination number
\* is the record's phone.
C13_IdentifiersFromConfiguration ==
  callData # None =>
    /\ NamesAndDestination
    /\ callData.agent_id = config.agentId
    /\ callData.agent_phone_number_id = config.phoneNumberId

\* C13 as amended: the names, the destination number and the agent
\* identifier are as stated; the phone-line identifier is the configured one
\* when there is one and the literal 'default_phone_id' otherwise, and
\* neither identifier is taken from the record.
C13_CallDataFields ==
  callData # None =>
    /\ NamesAndDestination
    /\ callData.agent_id = config.agentId
    /\ callData.agent_phone_number_id =
         IF NonEmpty(config.phoneNumberId) THEN config.phoneNumberId
         ELSE Lit("default_phone_id")
    /\ DOMAIN callData = {"agent_id", "agent_phone_number_id", "to_number", "dynamic_variables"}
    /\ DOMAIN callData.dynamic_variables = {"customer_name", "company_name"}

\* C13 witness: the snapshot's lead_company column and the record's company
\* were both filled and differ, the name was empty; the request took the
\* column and 'Customer'.
C13_Witness ==
  /\ callData # None
  /\ NonEmpty(SnapshotCompany(callLead))
  /\ NonEmpty(callLead.company)
  /\ SnapshotCompany(callLead) # callLead.company
  /\ callLead.name = Str(<<>>)
  /\ callData.dynamic_variables.company_name = SnapshotCompany(callLead)
  /\ callData.dynamic_variables.customer_name = Lit("Customer")

----------------------------------------------------------------------------
(* Properties of a request's phases                                        *)

\* How far a handler has come: waiting for a request, for the CRM, for the
\* provider, answered
Rank(pc) ==
  CASE pc = "idle" -> 0
    [] pc = "fetching" -> 1
    [] pc = "calling" -> 2
    [] OTHER -> 3

\* What holds of a webhook request wherever it stands
PhaseState(r) ==
  Webhook(r) =>
    /\ Len(h[r].fetches) <= 1
    /\ Len(h[r].calls) <= 1
    /\ h[r].fetches # <<>> => Recognized(r) /\ ~Truthy(h[r].body.challenge)
    /\ h[r].fetchReply # None => h[r].fetches # <<>>
    /\ h[r].leadData # None => h[r].fetchReply # None
    /\ (h[r].calls # <<>> \/ h[r].sims # <<>>) =>
         /\ h[r].leadData # None
         /\ Truthy(h[r].leadData.phone)
    /\ h[r].pc = "fetching" =>
         /\ h[r].fetches # <<>>
         /\ h[r].fetchReply = None
         /\ h[r].calls = <<>>
         /\ h[r].resp = None
    /\ h[r].pc = "calling" =>
         /\ h[r].calls # <<>>
         /\ h[r].callReply = None
         /\ h[r].resp = None
    /\ h[r].callReply # None => h[r].calls # <<>> /\ Answered(r)
    /\ Answered(r) <=> h[r].resp # None

\* What holds of every step of a handler
PhaseStep(r) ==
  /\ h[r].pc # "done" => Rank(h'[r].pc) >= Rank(h[r].pc)
  /\ h[r].pc = "done" => h'[r] \in {h[r], Idle}
  /\ h[r].pc \in {"fetching", "calling"} =>
       /\ h'[r].route = h[r].route
       /\ h'[r].body = h[r].body
       /\ h'[r].fetches = h[r].fetches
  /\ h[r].pc = "calling" =>
       /\ h'[r].calls = h[r].calls
       /\ h'[r].leadData = h[r].leadData
       /\ h'[r].fetchReply = h[r].fetchReply
       /\ h'[r] # h[r] => h'[r].pc = "done"

\* C14: each webhook request goes from received to normalized, then to
\* rejected or validated, then to call-succeeded or call-failed, in that
\* order and never back: the CRM fetch is issued at most once and only after
\* the event type was accepted, the provider call is attempted at most once
\* and only after a record with a phone was validated, and a call that failed
\* is answered, not sent again.
C14_PhasesInOrder ==
  /\ [](\A r \in Handlers : PhaseState(r))
  /\ [][\A r \in Handlers : PhaseStep(r)]_vars

\* C14 witness: a webhook went through one fetch and one provider call, the
\* call failed and the request was answered with the failure.
C14_Witness ==
  \E r \in Handlers :
    /\ Webhook(r) /\ Answered(r)
    /\ Len(h[r].fetches) = 1
    /\ Len(h[r].calls) = 1
    /\ ProviderFailed(r)
    /\ h[r].resp.status = 500

----------------------------------------------------------------------------
(* Properties of requests in flight together (SpecConcurrent)              *)

\* The handler a request would have by now had it been the only one: the
\* route run on its own payload, then on the CRM's answer to its own query,
\* then on the provider's answer to its own call
Alone(rec, now) ==
  IF rec.route = "POST /test/call"
    THEN LET start == ReceiveTestCall(rec.body, now) IN
         IF start.pc = "done" \/ rec.callReply = None THEN start
         ELSE HandleElevenLabsReply(start, rec.callReply, now)
    ELSE LET start == ReceiveWebhook(rec.body) IN
         IF start.pc = "done" \/ rec.fetchReply = None THEN start
         ELSE LET fetched == HandleMondayReply(start, rec.fetchReply, now) IN
              IF fetched.pc = "done" \/ rec.callReply = None THEN fetched
              ELSE HandleElevenLabsReply(fetched, rec.callReply, now)

\* The handler holds what its own request, the configuration and the
\* answers to its own calls give, whatever the other handler did meanwhile
OwnDataOnly(r) ==
  (Webhook(r) \/ TestCall(r)) => \E now \in Clock : h[r] = Alone(h[r], now)

\* A step changes the data of one handler and leaves the other's, and the
\* configuration, as they were
OneHandlerStep(r) ==
  h'[r] # h[r] =>
    /\ \A q \in Connections \ {r} : h'[q] = h[q]
    /\ config' = config

\* C15: under any interleaving of two requests handled together, suspended
\* at the CRM fetch or at the provider call, the response, the record and the
\* outbound call request of each depend only on its own payload, the static
\* configuration and the upstream replies to its own calls; no handler reads
\* or writes what the other wrote.
C15_RequestsIsolated ==
  /\ [](\A r \in Connections : OwnDataOnly(r))
  /\ [][\A r \in Connections : OneHandlerStep(r)]_vars

\* C15 witness: two webhooks for different leads wait for the provider at the
\* same time, each with a call request for its own lead's phone.
C15_Witness ==
  /\ \A r \in Connections : Webhook(r) /\ h[r].pc = "calling" /\ Len(h[r].calls) = 1
  /\ h["c1"].body # h["c2"].body
  /\ h["c1"].leadData.phone # h["c2"].leadData.phone
  /\ \A r \in Connections : h[r].calls[1].to_number = h[r].leadData.phone

----------------------------------------------------------------------------
(* Properties of the destination number                                    *)

\* The phone of the lead the handler works on: the record processWebhook
\* returned, or the one /test/call made of its body
HandledPhone(r) == IF h[r].leadData = None THEN Null ELSE h[r].leadData.phone

\* C16: on the CRM webhook and on /test/call alike, every request sent to
\* the calling provider and every simulated call carries a destination
\* number that is not absent, not empty, and is the phone of the lead being
\* handled; for a lead whose phone is absent or empty no provider call and no
\* simulation is started.
C16_DestinationIsLeadPhone ==
  \A r \in Handlers :
    /\ \A i \in 1..Len(h[r].calls) :
         /\ NonEmpty(h[r].calls[i].to_number)
         /\ h[r].calls[i].to_number = HandledPhone(r)
    /\ \A i \in 1..Len(h[r].sims) :
         /\ NonEmpty(h[r].sims[i])
         /\ h[r].sims[i] = HandledPhone(r)
    /\ h[r].callResult # None =>
         /\ NonEmpty(h[r].callResult.phone)
         /\ h[r].callResult.phone = HandledPhone(r)
    /\ TestCall(r) =>
         /\ h[r].leadData # None => HandledPhone(r) = h[r].body.phone
         /\ ~NonEmpty(h[r].body.phone) => h[r].leadData = None
    /\ ~NonEmpty(HandledPhone(r)) =>
         /\ h[r].calls = <<>>
         /\ h[r].sims = <<>>
         /\ h[r].callReply = None
         /\ h[r].callResult = None

\* C16 witness: a webhook lead whose phone came from the CRM alone waits for
\* the provider, and the one request sent carries that phone as destination.
C16_Witness ==
  \E r \in Handlers :
    /\ Webhook(r)
    /\ h[r].pc = "calling"
    /\ ~WebhookYieldsPhone(r)
    /\ NonEmpty(h[r].leadData.mcpData.phone)
    /\ h[r].calls = <<prepareCallData(config, h[r].leadData)>>
    /\ h[r].calls[1].to_number = h[r].leadData.mcpData.phone

====
